---- MODULE Spec2Model ----
(***************************************************************************)
(* ff-storage: the FileStore backends (S3BucketStore, LocalFolderStore)    *)
(* and the StoreBackup synchronization routines (copyStore,                *)
(* copyStoreDiff), as state machines.                                      *)
(*                                                                         *)
(* A store is a record [kind, files, dirs]: files maps every name of the   *)
(* universe to its content or to Absent; dirs is the set of directories of *)
(* a local folder store (always empty for a bucket, whose keys are flat).  *)
(* A file name is a sequence of characters, so that prefix matching and    *)
(* path separators are computed on the raw name as the code does.          *)
(***************************************************************************)
EXTENDS Integers, Sequences, FiniteSets, TLC

\* Contents are byte sequences, abstracted to 0..MaxContent; 0 is the empty one.
MaxContent == 1

Contents == 0..MaxContent

Absent == -1

Names == {<<"a">>, <<"d">>, <<"d", "/", "a">>}

Prefixes == {<<>>, <<"d">>, <<"d", "/">>}

StoreIds == {"source", "target"}

Kinds == {"s3", "local"}

\* Outcome of one transport / filesystem request: it goes through, the request
\* rejects (the SDK or node throws), or it answers with an unexpected status.
Faults == {"none", "reject", "status"}

----------------------------------------------------------------------------
\* Strings and paths

StartsWith(name, prefix) ==
    /\ Len(prefix) <= Len(name)
    /\ SubSeq(name, 1, Len(prefix)) = prefix

HasSep(name) == \E k \in 1..Len(name) : name[k] = "/"

\* The directories path.dirname(filePath) names below rootDir, with their ancestors.
Ancestors(name) == {SubSeq(name, 1, k - 1) : k \in {m \in 1..Len(name) : name[m] = "/"}}

\* The orders in which a listing may return a set of names.
Orderings(S) ==
    {s \in [1..Cardinality(S) -> S] : \A x, y \in 1..Cardinality(S) : x # y => s[x] # s[y]}

SeqToSet(s) == {s[k] : k \in 1..Len(s)}

----------------------------------------------------------------------------
\* Results of store operations

Ok(st, ret) == [ok |-> TRUE, err |-> "none", st |-> st, ret |-> ret]

Fail(st, err) == [ok |-> FALSE, err |-> err, st |-> st, ret |-> Absent]

\* A Buffer, or the Readable a readStream call hands out.
Body(c) == [good |-> TRUE, data |-> c, err |-> "none"]

BadStream(err) == [good |-> FALSE, data |-> 0, err |-> err]

NoStream == [good |-> FALSE, data |-> 0, err |-> "closed"]

\* The class an error is an instance of, which is what a caller can tell errors
\* apart by: IOError and the client's service exceptions are subclasses of
\* Error with a constructor of their own; the errors of node's fs functions are
\* plain Error objects that carry a code; new Error(...) is a plain Error.
ErrorClass(err) ==
    IF err = "ErrnoException" THEN "Error" ELSE err

StoredNames(st) == {n \in Names : st.files[n] # Absent}

EmptyStore(kind) == [kind |-> kind, files |-> [n \in Names |-> Absent], dirs |-> {}]

----------------------------------------------------------------------------
\* S3BucketStore: every operation is one request sent through the client.

\* What a CreateBucket request for the store's bucket comes to: created (200),
\* refused because the bucket already exists (the client throws), or failed.
CreateOutcomes == Faults \cup {"exists"}

\* initialize(): a HeadBucket probe; when it throws, for whatever reason, a
\* CreateBucket request whose exceptions are not caught and whose status must
\* be 200. ret tells whether the CreateBucket request was sent.
S3Initialize(st, probe, create) ==
    IF probe = "none" THEN Ok(st, FALSE)
    ELSE IF create \in {"reject", "exists"} THEN Fail(st, "ServiceException")
    ELSE IF create = "status" THEN Fail(st, "IOError")
    ELSE Ok(st, TRUE)

\* A PutObject request that does not carry the content: an empty object is stored.
S3WriteEmptyBody(st, fileName, content, fault) ==
    IF ~content.good THEN Fail(st, content.err)
    ELSE IF fault = "reject" THEN Fail(st, "ServiceException")
    ELSE IF fault = "status" THEN Fail(st, "IOError")
    ELSE Ok([st EXCEPT !.files[fileName] = 0], TRUE)

S3Write(st, fileName, content, fault) ==
    IF ~content.good THEN Fail(st, content.err)
    ELSE IF fault = "reject" THEN Fail(st, "ServiceException")
    ELSE IF fault = "status" THEN Fail(st, "IOError")
    ELSE Ok([st EXCEPT !.files[fileName] = content.data], TRUE)

S3ReadBuffer(st, fileName, fault) ==
    IF fault = "reject" \/ st.files[fileName] = Absent THEN Fail(st, "ServiceException")
    ELSE IF fault = "status" THEN Fail(st, "IOError")
    ELSE Ok(st, st.files[fileName])

S3ReadStream(st, fileName, fault) ==
    IF fault = "reject" \/ st.files[fileName] = Absent THEN Fail(st, "ServiceException")
    ELSE IF fault = "status" THEN Fail(st, "IOError")
    ELSE Ok(st, Body(st.files[fileName]))

\* DeleteObject answers 204 whether or not the key exists.
S3Delete(st, fileName, fault) ==
    IF fault = "reject" THEN Fail(st, "ServiceException")
    ELSE IF fault = "status" THEN Fail(st, "IOError")
    ELSE Ok([st EXCEPT !.files[fileName] = Absent], TRUE)

\* A ListObjectsV2 request sent without the Prefix: every key is returned.
S3ListIgnoresPrefix(st, prefix, fault) ==
    IF fault = "reject" THEN Fail(st, "ServiceException")
    ELSE IF fault = "status" THEN Fail(st, "IOError")
    ELSE Ok(st, StoredNames(st))

\* ListObjectsV2 with Prefix: the keys that start with the prefix. One request,
\* no continuation token: the buckets modelled hold fewer keys than one page.
S3List(st, prefix, fault) ==
    IF fault = "reject" THEN Fail(st, "ServiceException")
    ELSE IF fault = "status" THEN Fail(st, "IOError")
    ELSE Ok(st, {n \in StoredNames(st) : StartsWith(n, prefix)})

\* The command is built and never sent: nothing can throw, true is returned.
S3Has(st, fileName, fault) == Ok(st, TRUE)

\* An empty() that does not look at the listing.
S3EmptyIgnoresListing(st, fault) ==
    LET r == S3List(st, <<>>, fault)
    IN  IF r.ok THEN Ok(st, TRUE) ELSE r

S3Empty(st, fault) ==
    LET r == S3List(st, <<>>, fault)
    IN  IF r.ok THEN Ok(st, r.ret = {}) ELSE r

\* A clear() that does not look at the Errors of the response.
S3ClearIgnoresErrors(st, listing, fault, errors) ==
    LET r == S3List(st, <<>>, listing)
    IN  IF ~r.ok THEN r
        ELSE IF r.ret = {} THEN Ok(st, FALSE)
        ELSE IF fault # "none" THEN Fail(st, "IOError")
        ELSE Ok([st EXCEPT !.files = [n \in Names |->
                              IF n \in errors THEN st.files[n] ELSE Absent]], TRUE)

\* clear(): list(), whose failure is not caught; nothing more when the list is
\* empty, else one DeleteObjects request for all the keys. errors are the keys
\* the response reports as not deleted; every failure of the request is
\* rethrown as an IOError. ret tells whether the DeleteObjects request was sent.
S3Clear(st, listing, fault, errors) ==
    LET r == S3List(st, <<>>, listing)
    IN  IF ~r.ok THEN r
        ELSE IF r.ret = {} THEN Ok(st, FALSE)
        ELSE IF fault # "none" THEN Fail(st, "IOError")
        ELSE LET left == [st EXCEPT !.files = [n \in Names |->
                                       IF n \in errors THEN st.files[n] ELSE Absent]]
             IN  IF errors \cap r.ret # {} THEN Fail(left, "IOError") ELSE Ok(left, TRUE)

----------------------------------------------------------------------------
\* LocalFolderStore: names are paths below rootDir.

\* initialize(): mkdir(rootDir, recursive), which succeeds on a folder that exists.
LocalInitialize(st, fault) ==
    IF fault \in {"reject", "status"} THEN Fail(st, "ErrnoException") ELSE Ok(st, FALSE)

IsFile(st, name) == name \in StoredNames(st)

\* What fsp.readdir(rootDir) returns: the children of the root, files and folders.
RootEntries(st) == {n \in StoredNames(st) \cup st.dirs : ~HasSep(n)}

\* A writeFile that does not replace a file that exists (flag "wx" or "a").
LocalWriteKeepsOld(st, fileName, content, fault) ==
    IF fault # "none" \/ (\E d \in Ancestors(fileName) : IsFile(st, d))
    THEN Fail(st, "ErrnoException")
    ELSE LET made == [st EXCEPT !.dirs = @ \cup Ancestors(fileName)]
         IN  IF fileName \in made.dirs THEN Fail(made, "ErrnoException")
             ELSE IF ~content.good THEN Fail(made, content.err)
                  ELSE IF IsFile(st, fileName) THEN Ok(made, TRUE)
                       ELSE Ok([made EXCEPT !.files[fileName] = content.data], TRUE)

\* mkdir(dirname, recursive) then writeFile: writeFile opens the file for writing
\* (creating or truncating it) before it consumes the content.
LocalWrite(st, fileName, content, fault) ==
    IF fault # "none" \/ (\E d \in Ancestors(fileName) : IsFile(st, d))
    THEN Fail(st, "ErrnoException")
    ELSE LET made == [st EXCEPT !.dirs = @ \cup Ancestors(fileName)]
         IN  IF fileName \in made.dirs THEN Fail(made, "ErrnoException")
             ELSE IF ~content.good
                  THEN Fail([made EXCEPT !.files[fileName] = 0], content.err)
                  ELSE Ok([made EXCEPT !.files[fileName] = content.data], TRUE)

LocalReadBuffer(st, fileName, fault) ==
    IF fault # "none" \/ ~IsFile(st, fileName) THEN Fail(st, "ErrnoException")
    ELSE Ok(st, st.files[fileName])

\* fs.createReadStream never throws: a missing file or a folder shows as an
\* error of the stream when it is consumed.
LocalReadStream(st, fileName, fault) ==
    IF fault # "none" \/ ~IsFile(st, fileName) THEN Ok(st, BadStream("ErrnoException"))
    ELSE Ok(st, Body(st.files[fileName]))

\* An unlink that tolerates a missing file (rm with force).
LocalDeleteForce(st, fileName, fault) ==
    IF fault # "none" \/ fileName \in st.dirs THEN Fail(st, "ErrnoException")
    ELSE Ok([st EXCEPT !.files[fileName] = Absent], TRUE)

LocalDelete(st, fileName, fault) ==
    IF fault # "none" \/ ~IsFile(st, fileName) THEN Fail(st, "ErrnoException")
    ELSE Ok([st EXCEPT !.files[fileName] = Absent], TRUE)

LocalList(st, prefix, fault) ==
    IF fault # "none" THEN Fail(st, "ErrnoException")
    ELSE Ok(st, {n \in RootEntries(st) : prefix = <<>> \/ StartsWith(n, prefix)})

\* fsp.access succeeds on files and folders alike; every failure is caught.
LocalHas(st, fileName, fault) ==
    Ok(st, fault = "none" /\ (IsFile(st, fileName) \/ fileName \in st.dirs))

----------------------------------------------------------------------------
\* FileStore: the interface the backends implement, dispatched on the store.

\* probe is what becomes of the bucket probe, create of the request that creates
\* the bucket or the folder.
Initialize(st, probe, create) ==
    IF st.kind = "s3" THEN S3Initialize(st, probe, create)
    ELSE LocalInitialize(st, create)

Write(st, fileName, content, fault) ==
    IF st.kind = "s3" THEN S3Write(st, fileName, content, fault)
    ELSE LocalWrite(st, fileName, content, fault)

ReadBuffer(st, fileName, fault) ==
    IF st.kind = "s3" THEN S3ReadBuffer(st, fileName, fault)
    ELSE LocalReadBuffer(st, fileName, fault)

ReadStream(st, fileName, fault) ==
    IF st.kind = "s3" THEN S3ReadStream(st, fileName, fault)
    ELSE LocalReadStream(st, fileName, fault)

Delete(st, fileName, fault) ==
    IF st.kind = "s3" THEN S3Delete(st, fileName, fault)
    ELSE LocalDelete(st, fileName, fault)

List(st, prefix, fault) ==
    IF st.kind = "s3" THEN S3List(st, prefix, fault)
    ELSE LocalList(st, prefix, fault)

Has(st, fileName, fault) ==
    IF st.kind = "s3" THEN S3Has(st, fileName, fault)
    ELSE LocalHas(st, fileName, fault)

\* empty() exists on S3BucketStore only; on a LocalFolderStore the call
\* target.empty() throws a TypeError.
Empty(st, fault) ==
    IF st.kind = "s3" THEN S3Empty(st, fault)
    ELSE Fail(st, "TypeError")

\* clear() likewise exists on S3BucketStore only.
Clear(st, listing, fault, errors) ==
    IF st.kind = "s3" THEN S3Clear(st, listing, fault, errors)
    ELSE Fail(st, "TypeError")

----------------------------------------------------------------------------
\* State

VARIABLES
    store,        \* store["source"], store["target"]: the two stores
    pc,           \* where the running StoreBackup call is; "idle" when none runs
    op,           \* "copyStore" or "copyStoreDiff": the call that runs
    prefix,       \* its prefix argument
    targetFiles,  \* copyStoreDiff: the listing of target
    fileNames,    \* copyStore: fileNames; copyStoreDiff: addedFiles
    removedFiles, \* copyStoreDiff: removedFiles
    idx,          \* position of the for..of loop that runs
    stream,       \* the Readable opened by source.readStream, until it is written
    result,       \* "none" while running, "ok", or the kind of the error thrown
    issued,       \* the per-name requests this call has issued: <<operation, name, store>>
    raised,       \* the first error a store operation of this call failed with
    store0,       \* the stores as they were when the call started
    prev,         \* the last call that returned, if it was a successful copyStoreDiff
                  \* or a copyStore that failed after copying a name (partial), and
                  \* whether target was cleared since (cleared)
    again,        \* the running call follows prev: a copyStoreDiff with the same
                  \* prefix, or a copyStore after the partly failed one
    last,         \* the last operation a caller made on a store directly
    inFlight      \* two write calls for one name that run at the same time: the
                  \* store's kind, the file or object (file), each call's position
                  \* (w) and what a readBuffer returned after them (read)

vars == <<store, pc, op, prefix, targetFiles, fileNames, removedFiles, idx, stream,
          result, issued, raised, store0, prev, again, last, inFlight>>

runVars == <<op, prefix, targetFiles, fileNames, removedFiles, idx, stream,
             issued, store0, prev, again>>

NoCall == [op |-> "none", prefix |-> <<>>, partial |-> FALSE, cleared |-> FALSE]

NoOp == [op |-> "none", on |-> "none", name |-> <<>>, ok |-> TRUE, fault |-> "none",
         ret |-> Absent, after |-> "none", wrote |-> Absent, old |-> Absent,
         err |-> "none", before |-> {}]

\* No pair of write calls is running.
NoWrites == [kind |-> "none", file |-> <<>>, w |-> <<>>,
             read |-> [done |-> FALSE, bytes |-> <<>>]]

DirNames == UNION {Ancestors(n) : n \in Names}

\* The states a store can be brought to by writes and deletes.
StoreStates(kind) ==
    IF kind = "s3"
    THEN {[kind |-> "s3", files |-> f, dirs |-> {}] : f \in [Names -> Contents \cup {Absent}]}
    ELSE {st \in [kind : {"local"}, files : [Names -> Contents \cup {Absent}],
                  dirs : SUBSET DirNames] :
            /\ \A n \in StoredNames(st) : Ancestors(n) \subseteq st.dirs
            /\ \A d \in st.dirs : Ancestors(d) \subseteq st.dirs
            /\ st.dirs \cap StoredNames(st) = {}}

Idle ==
    /\ pc = "idle"
    /\ op = "none"
    /\ prefix = <<>>
    /\ targetFiles = <<>>
    /\ fileNames = <<>>
    /\ removedFiles = <<>>
    /\ idx = 0
    /\ stream = NoStream
    /\ result = "none"
    /\ issued = {}
    /\ raised = "none"
    /\ store0 = store
    /\ again = FALSE

\* Two initialized stores of either kind, holding any content.
Init ==
    /\ \E ks, kt \in Kinds : store \in [source : StoreStates(ks), target : StoreStates(kt)]
    /\ Idle
    /\ prev = NoCall
    /\ last = NoOp
    /\ inFlight = NoWrites

----------------------------------------------------------------------------
\* StoreBackup

\* An awaited store operation rejects: the exception leaves the async function.
Rejects(r) == ~r.ok

Throw(e) ==
    /\ pc' = "failed"
    /\ result' = e

\* Bookkeeping: the first failure of a store operation during the call.
Note(r) == raised' = IF ~r.ok /\ raised = "none" THEN r.err ELSE raised

Complete ==
    /\ pc' = "done"
    /\ result' = "ok"

\* A loop over fileNames that starts at the end of the list.
fileNameFromEnd ==
    IF pc = "csd_delete" THEN removedFiles[idx] ELSE fileNames[Len(fileNames) + 1 - idx]

\* The name the running loop is at.
fileName == IF pc = "csd_delete" THEN removedFiles[idx] ELSE fileNames[idx]

Issue(request, on) == issued' = issued \cup {<<request, fileName, on>>}

\* A copyStore that does not look at the answer of target.empty().
TargetNotEmptyUnchecked(empty) == FALSE

\* if (!empty) throw new Error("Target store is not empty")
TargetNotEmpty(empty) == ~empty

CallCopyStore(p) ==
    /\ pc = "idle"
    /\ pc' = "cs_empty"
    /\ op' = "copyStore"
    /\ prefix' = p
    /\ again' = (prev.op = "copyStore")
    /\ UNCHANGED <<store, targetFiles, fileNames, removedFiles, idx, stream, result,
                   issued, raised, store0, prev, last>>
    /\ UNCHANGED inFlight

\* const empty = await target.empty(); if (!empty) throw ...
CopyStoreEmpty(fault) ==
    /\ pc = "cs_empty"
    /\ Note(Empty(store["target"], fault))
    /\ LET r == Empty(store["target"], fault)
       IN  IF Rejects(r) THEN Throw(r.err)
           ELSE IF TargetNotEmpty(r.ret) THEN Throw("Error")
           ELSE pc' = "cs_list" /\ UNCHANGED result
    /\ UNCHANGED <<store, runVars, last>>
    /\ UNCHANGED inFlight

\* const fileNames = await source.list(prefix)
CopyStoreList(fault) ==
    /\ pc = "cs_list"
    /\ Note(List(store["source"], prefix, fault))
    /\ LET r == List(store["source"], prefix, fault)
       IN  IF Rejects(r) THEN Throw(r.err) /\ UNCHANGED <<fileNames, idx>>
           ELSE \E s \in Orderings(r.ret) :
                  /\ fileNames' = s
                  /\ IF s = <<>> THEN Complete /\ UNCHANGED idx
                     ELSE pc' = "cs_read" /\ idx' = 1 /\ UNCHANGED result
    /\ UNCHANGED <<store, op, prefix, targetFiles, removedFiles, stream, issued,
                   store0, prev, again, last>>
    /\ UNCHANGED inFlight

\* const stream = await source.readStream(fileName)
ReadStep(fault, here, next) ==
    /\ pc = here
    /\ Issue("readStream", "source")
    /\ Note(ReadStream(store["source"], fileName, fault))
    /\ LET r == ReadStream(store["source"], fileName, fault)
       IN  IF Rejects(r) THEN Throw(r.err) /\ UNCHANGED stream
           ELSE pc' = next /\ stream' = r.ret /\ UNCHANGED result
    /\ UNCHANGED <<store, op, prefix, targetFiles, fileNames, removedFiles, idx,
                   store0, prev, again, last>>
    /\ UNCHANGED inFlight

\* What follows the loop over fileNames (addedFiles): the end of copyStore, or
\* the loop over removedFiles.
AfterCopies ==
    IF op = "copyStoreDiff" /\ removedFiles # <<>>
    THEN pc' = "csd_delete" /\ idx' = 1 /\ UNCHANGED result
    ELSE Complete /\ UNCHANGED idx

\* A target.write that is not awaited: its rejection is never seen, the loop goes on.
WriteStepNotAwaited(fault, here, back) ==
    /\ pc = here
    /\ Issue("write", "target")
    /\ stream' = NoStream
    /\ Note(Write(store["target"], fileName, stream, fault))
    /\ LET r == Write(store["target"], fileName, stream, fault)
       IN  /\ store' = [store EXCEPT !["target"] = r.st]
           /\ IF idx < Len(fileNames)
              THEN pc' = back /\ idx' = idx + 1 /\ UNCHANGED result
              ELSE AfterCopies
    /\ UNCHANGED <<op, prefix, targetFiles, fileNames, removedFiles, store0, prev,
                   again, last>>
    /\ UNCHANGED inFlight

\* A copy loop that goes on to the deletes as soon as one name is copied.
WriteStepThenDeletes(fault, here, back) ==
    /\ pc = here
    /\ Issue("write", "target")
    /\ stream' = NoStream
    /\ Note(Write(store["target"], fileName, stream, fault))
    /\ LET r == Write(store["target"], fileName, stream, fault)
       IN  /\ store' = [store EXCEPT !["target"] = r.st]
           /\ IF Rejects(r) THEN Throw(r.err) /\ UNCHANGED idx
              ELSE IF idx < Len(fileNames) /\ removedFiles = <<>>
                   THEN pc' = back /\ idx' = idx + 1 /\ UNCHANGED result
                   ELSE AfterCopies
    /\ UNCHANGED <<op, prefix, targetFiles, fileNames, removedFiles, store0, prev,
                   again, last>>
    /\ UNCHANGED inFlight

\* await target.write(fileName, stream)
WriteStep(fault, here, back) ==
    /\ pc = here
    /\ Issue("write", "target")
    /\ stream' = NoStream
    /\ Note(Write(store["target"], fileName, stream, fault))
    /\ LET r == Write(store["target"], fileName, stream, fault)
       IN  /\ store' = [store EXCEPT !["target"] = r.st]
           /\ IF Rejects(r) THEN Throw(r.err) /\ UNCHANGED idx
              ELSE IF idx < Len(fileNames)
                   THEN pc' = back /\ idx' = idx + 1 /\ UNCHANGED result
                   ELSE AfterCopies
    /\ UNCHANGED <<op, prefix, targetFiles, fileNames, removedFiles, store0, prev,
                   again, last>>
    /\ UNCHANGED inFlight

CopyStoreRead(fault) == ReadStep(fault, "cs_read", "cs_write")

CopyStoreWrite(fault) == WriteStep(fault, "cs_write", "cs_read")

CallCopyStoreDiff(p) ==
    /\ pc = "idle"
    /\ pc' = "csd_tlist"
    /\ op' = "copyStoreDiff"
    /\ prefix' = p
    /\ again' = (prev.op = "copyStoreDiff" /\ prev.prefix = p)
    /\ UNCHANGED <<store, targetFiles, fileNames, removedFiles, idx, stream, result,
                   issued, raised, store0, prev, last>>
    /\ UNCHANGED inFlight

\* const targetFiles = await target.list(prefix)
CopyStoreDiffTargetList(fault) ==
    /\ pc = "csd_tlist"
    /\ Note(List(store["target"], prefix, fault))
    /\ LET r == List(store["target"], prefix, fault)
       IN  IF Rejects(r) THEN Throw(r.err) /\ UNCHANGED targetFiles
           ELSE /\ \E s \in Orderings(r.ret) : targetFiles' = s
                /\ pc' = "csd_slist"
                /\ UNCHANGED result
    /\ UNCHANGED <<store, op, prefix, fileNames, removedFiles, idx, stream, issued,
                   store0, prev, again, last>>
    /\ UNCHANGED inFlight

\* An added set taken to be the whole source list, whatever target lists.
AddedFilesUnfiltered(sourceFiles, targetList) == sourceFiles

\* sourceFiles.filter(name => !targetSet.has(name))
AddedFiles(sourceFiles, targetList) ==
    SelectSeq(sourceFiles, LAMBDA name : name \notin SeqToSet(targetList))

\* targetFiles.filter(name => !sourceSet.has(name))
RemovedFiles(sourceFiles, targetList) ==
    SelectSeq(targetList, LAMBDA name : name \notin SeqToSet(sourceFiles))

\* const sourceFiles = await source.list(prefix), then the two filters
CopyStoreDiffSourceList(fault) ==
    /\ pc = "csd_slist"
    /\ Note(List(store["source"], prefix, fault))
    /\ LET r == List(store["source"], prefix, fault)
       IN  IF Rejects(r) THEN Throw(r.err) /\ UNCHANGED <<fileNames, removedFiles, idx>>
           ELSE \E sourceFiles \in Orderings(r.ret) :
                  LET addedFiles == AddedFiles(sourceFiles, targetFiles)
                      removed == RemovedFiles(sourceFiles, targetFiles)
                  IN  /\ fileNames' = addedFiles
                      /\ removedFiles' = removed
                      /\ IF addedFiles # <<>>
                         THEN pc' = "csd_read" /\ idx' = 1 /\ UNCHANGED result
                         ELSE IF removed # <<>>
                              THEN pc' = "csd_delete" /\ idx' = 1 /\ UNCHANGED result
                              ELSE Complete /\ UNCHANGED idx
    /\ UNCHANGED <<store, op, prefix, targetFiles, stream, issued, store0, prev,
                   again, last>>
    /\ UNCHANGED inFlight

CopyStoreDiffRead(fault) == ReadStep(fault, "csd_read", "csd_write")

CopyStoreDiffWrite(fault) == WriteStep(fault, "csd_write", "csd_read")

\* A delete loop that deletes from source what target does not need.
CopyStoreDiffDeleteOnSource(fault) ==
    /\ pc = "csd_delete"
    /\ Issue("delete", "source")
    /\ Note(Delete(store["source"], fileName, fault))
    /\ LET r == Delete(store["source"], fileName, fault)
       IN  /\ store' = [store EXCEPT !["source"] = r.st]
           /\ IF Rejects(r) THEN Throw(r.err) /\ UNCHANGED idx
              ELSE IF idx < Len(removedFiles)
                   THEN idx' = idx + 1 /\ UNCHANGED <<pc, result>>
                   ELSE Complete /\ UNCHANGED idx
    /\ UNCHANGED <<op, prefix, targetFiles, fileNames, removedFiles, stream, store0,
                   prev, again, last>>
    /\ UNCHANGED inFlight

\* await target.delete(fileName)
CopyStoreDiffDelete(fault) ==
    /\ pc = "csd_delete"
    /\ Issue("delete", "target")
    /\ Note(Delete(store["target"], fileName, fault))
    /\ LET r == Delete(store["target"], fileName, fault)
       IN  /\ store' = [store EXCEPT !["target"] = r.st]
           /\ IF Rejects(r) THEN Throw(r.err) /\ UNCHANGED idx
              ELSE IF idx < Len(removedFiles)
                   THEN idx' = idx + 1 /\ UNCHANGED <<pc, result>>
                   ELSE Complete /\ UNCHANGED idx
    /\ UNCHANGED <<op, prefix, targetFiles, fileNames, removedFiles, stream, store0,
                   prev, again, last>>
    /\ UNCHANGED inFlight

\* The promise settles and the caller goes on.
Return ==
    /\ pc \in {"done", "failed"}
    /\ pc' = "idle"
    /\ prev' = IF pc = "done" /\ op = "copyStoreDiff"
               THEN [op |-> op, prefix |-> prefix, partial |-> FALSE, cleared |-> FALSE]
               ELSE IF pc = "failed" /\ op = "copyStore" /\ idx >= 2
                    THEN [op |-> op, prefix |-> prefix, partial |-> TRUE,
                          cleared |-> FALSE]
                    ELSE NoCall
    /\ op' = "none"
    /\ prefix' = <<>>
    /\ targetFiles' = <<>>
    /\ fileNames' = <<>>
    /\ removedFiles' = <<>>
    /\ idx' = 0
    /\ stream' = NoStream
    /\ result' = "none"
    /\ issued' = {}
    /\ raised' = "none"
    /\ store0' = store
    /\ again' = FALSE
    /\ UNCHANGED <<store, last>>
    /\ UNCHANGED inFlight

\* Between two calls the caller resets target with clear().
ResetTarget(listing, fault, errors) ==
    /\ pc = "idle"
    /\ LET r == Clear(store["target"], listing, fault, errors)
       IN  /\ store' = [store EXCEPT !["target"] = r.st]
           /\ store0' = store'
           /\ prev' = IF prev.op = "copyStore"
                      THEN [prev EXCEPT !.cleared = @ \/ r.ok]
                      ELSE NoCall
    /\ UNCHANGED <<pc, op, prefix, targetFiles, fileNames, removedFiles, idx, stream,
                   result, issued, raised, again, last>>
    /\ UNCHANGED inFlight

Next ==
    \/ \E p \in Prefixes : CallCopyStore(p)
    \/ \E fault \in Faults : CopyStoreEmpty(fault)
    \/ \E fault \in Faults : CopyStoreList(fault)
    \/ \E fault \in Faults : CopyStoreRead(fault)
    \/ \E fault \in Faults : CopyStoreWrite(fault)
    \/ \E p \in Prefixes : CallCopyStoreDiff(p)
    \/ \E fault \in Faults : CopyStoreDiffTargetList(fault)
    \/ \E fault \in Faults : CopyStoreDiffSourceList(fault)
    \/ \E fault \in Faults : CopyStoreDiffRead(fault)
    \/ \E fault \in Faults : CopyStoreDiffWrite(fault)
    \/ \E fault \in Faults : CopyStoreDiffDelete(fault)
    \/ Return
    \/ \E listing \in Faults, fault \in Faults, errors \in SUBSET Names :
           ResetTarget(listing, fault, errors)

Spec == Init /\ [][Next]_vars

----------------------------------------------------------------------------
\* A caller using a store directly. last keeps the operation, the outcome of its
\* request (fault), its result (ret) or the kind of its error (err), the names
\* stored before it (before) and, in after, the successful write or delete
\* of the same name on the same store that came immediately before it, with the
\* content that write stored (wrote) and the content it replaced (old).

After(s, name) ==
    IF last.op \in {"write", "delete"} /\ last.ok /\ last.on = s /\ last.name = name
    THEN last.op ELSE "none"

AfterClear(s) ==
    IF last.op = "clear" /\ last.ok /\ last.on = s THEN "clear" ELSE "none"

Wrote(s, name) == IF After(s, name) = "write" THEN last.wrote ELSE Absent

Old(s, name) == IF After(s, name) = "write" THEN last.old ELSE Absent

CallWrite(s, name, content, fault) ==
    /\ pc = "idle"
    /\ LET r == Write(store[s], name, Body(content), fault)
       IN  /\ store' = [store EXCEPT ![s] = r.st]
           /\ store0' = store'
           /\ last' = [op |-> "write", on |-> s, name |-> name, ok |-> r.ok,
                       fault |-> fault, err |-> r.err,
                       before |-> StoredNames(store[s]), ret |-> Absent,
                       after |-> "none", wrote |-> content, old |-> store[s].files[name]]
    /\ UNCHANGED <<pc, op, prefix, targetFiles, fileNames, removedFiles, idx, stream,
                   result, issued, raised, prev, again>>
    /\ UNCHANGED inFlight

CallDelete(s, name, fault) ==
    /\ pc = "idle"
    /\ LET r == Delete(store[s], name, fault)
       IN  /\ store' = [store EXCEPT ![s] = r.st]
           /\ store0' = store'
           /\ last' = [op |-> "delete", on |-> s, name |-> name, ok |-> r.ok,
                       fault |-> fault, err |-> r.err,
                       before |-> StoredNames(store[s]), ret |-> Absent,
                       after |-> "none", wrote |-> Absent, old |-> Absent]
    /\ UNCHANGED <<pc, op, prefix, targetFiles, fileNames, removedFiles, idx, stream,
                   result, issued, raised, prev, again>>
    /\ UNCHANGED inFlight

CallHas(s, name, fault) ==
    /\ pc = "idle"
    /\ LET r == Has(store[s], name, fault)
       IN  last' = [op |-> "has", on |-> s, name |-> name, ok |-> r.ok,
                    fault |-> fault, err |-> r.err,
                    before |-> StoredNames(store[s]), ret |-> r.ret,
                    after |-> After(s, name),
                    wrote |-> Absent, old |-> Absent]
    /\ UNCHANGED <<store, pc, runVars, result, raised>>
    /\ UNCHANGED inFlight

CallReadBuffer(s, name, fault) ==
    /\ pc = "idle"
    /\ LET r == ReadBuffer(store[s], name, fault)
       IN  last' = [op |-> "readBuffer", on |-> s, name |-> name, ok |-> r.ok,
                    fault |-> fault, err |-> r.err,
                    before |-> StoredNames(store[s]), ret |-> r.ret,
                    after |-> After(s, name),
                    wrote |-> Wrote(s, name), old |-> Old(s, name)]
    /\ UNCHANGED <<store, pc, runVars, result, raised>>
    /\ UNCHANGED inFlight

\* fault is what became of the create request, ret tells whether the probe failed.
CallInitialize(s, probe, create) ==
    /\ pc = "idle"
    /\ LET r == Initialize(store[s], probe, create)
       IN  last' = [op |-> "initialize", on |-> s, name |-> <<>>, ok |-> r.ok,
                    fault |-> create, err |-> r.err,
                    before |-> StoredNames(store[s]), ret |-> (probe # "none"),
                    after |-> "none", wrote |-> Absent, old |-> Absent]
    /\ UNCHANGED <<store, pc, runVars, result, raised>>
    /\ UNCHANGED inFlight

\* ret is the content the returned stream delivers, Absent when no stream is
\* returned or the stream fails when it is consumed.
CallReadStream(s, name, fault) ==
    /\ pc = "idle"
    /\ LET r == ReadStream(store[s], name, fault)
       IN  last' = [op |-> "readStream", on |-> s, name |-> name, ok |-> r.ok,
                    fault |-> fault, err |-> r.err,
                    before |-> StoredNames(store[s]),
                    ret |-> IF r.ok /\ r.ret.good THEN r.ret.data ELSE Absent,
                    after |-> After(s, name), wrote |-> Absent, old |-> Absent]
    /\ UNCHANGED <<store, pc, runVars, result, raised>>
    /\ UNCHANGED inFlight

\* name holds the prefix argument, ret the names of the returned array.
CallList(s, p, fault) ==
    /\ pc = "idle"
    /\ LET r == List(store[s], p, fault)
       IN  last' = [op |-> "list", on |-> s, name |-> p, ok |-> r.ok,
                    fault |-> fault, err |-> r.err,
                    before |-> StoredNames(store[s]), ret |-> r.ret,
                    after |-> AfterClear(s), wrote |-> Absent, old |-> Absent]
    /\ UNCHANGED <<store, pc, runVars, result, raised>>
    /\ UNCHANGED inFlight

CallEmpty(s, fault) ==
    /\ pc = "idle"
    /\ LET r == Empty(store[s], fault)
       IN  last' = [op |-> "empty", on |-> s, name |-> <<>>, ok |-> r.ok,
                    fault |-> fault, err |-> r.err,
                    before |-> StoredNames(store[s]), ret |-> r.ret,
                    after |-> AfterClear(s), wrote |-> Absent, old |-> Absent]
    /\ UNCHANGED <<store, pc, runVars, result, raised>>
    /\ UNCHANGED inFlight

\* fault is what became of the list request, ret tells whether the DeleteObjects
\* request was sent.
CallClear(s, listing, fault, errors) ==
    /\ pc = "idle"
    /\ LET r == Clear(store[s], listing, fault, errors)
       IN  /\ store' = [store EXCEPT ![s] = r.st]
           /\ store0' = store'
           /\ last' = [op |-> "clear", on |-> s, name |-> <<>>, ok |-> r.ok,
                       fault |-> listing, err |-> r.err,
                       before |-> StoredNames(store[s]), ret |-> r.ret,
                       after |-> "none", wrote |-> Absent, old |-> Absent]
    /\ UNCHANGED <<pc, op, prefix, targetFiles, fileNames, removedFiles, idx, stream,
                   result, issued, raised, prev, again>>
    /\ UNCHANGED inFlight

\* The stores right after initialize(): nothing is stored yet.
StoreInit ==
    /\ \E kt \in Kinds : store = [source |-> EmptyStore("s3"), target |-> EmptyStore(kt)]
    /\ Idle
    /\ prev = NoCall
    /\ last = NoOp
    /\ inFlight = NoWrites

\* The store contract is a property of one store: the caller works on the one
\* bound to "target", of either kind; the other stays as initialized.
Subjects == {"target"}

StoreNext ==
    \/ \E s \in Subjects, n \in Names, c \in Contents, fault \in Faults : CallWrite(s, n, c, fault)
    \/ \E s \in Subjects, n \in Names, fault \in Faults : CallDelete(s, n, fault)
    \/ \E s \in Subjects, n \in Names, fault \in Faults : CallHas(s, n, fault)
    \/ \E s \in Subjects, n \in Names, fault \in Faults : CallReadBuffer(s, n, fault)
    \/ \E s \in Subjects, n \in Names, fault \in Faults : CallReadStream(s, n, fault)
    \/ \E s \in Subjects, p \in Prefixes, fault \in Faults : CallList(s, p, fault)
    \/ \E s \in Subjects, probe \in Faults, create \in CreateOutcomes :
           CallInitialize(s, probe, create)
    \/ \E s \in Subjects, fault \in Faults : CallEmpty(s, fault)
    \/ \E s \in Subjects, listing \in Faults, fault \in Faults, errors \in SUBSET Names :
           CallClear(s, listing, fault, errors)

StoreSpec == StoreInit /\ [][StoreNext]_vars

\* Every store state the synchronization runs start from is one that writes
\* and deletes produce.
StoresAreStoreStates == \A s \in StoreIds : store[s] \in StoreStates(store[s].kind)

----------------------------------------------------------------------------
\* Two write calls for the same name on one store, both called before either
\* has completed. Bytes are kept here, since what matters is which call each
\* byte of the stored content comes from: call i writes bytes of value i.

MaxBytes == 2

Writers == {1, 2}

\* The content argument of call i: a Buffer, or a Readable that delivers one
\* byte per chunk.
Payloads(i) ==
    {[form |-> f, bytes |-> [k \in 1..n |-> i]] : f \in {"buffer", "stream"}, n \in 1..MaxBytes}

\* write(fd, piece) at position pos of a file: bytes beyond the piece stay, a
\* gap before it reads as zeros.
Overwrite(file, pos, piece) ==
    LET len == IF Len(file) > pos + Len(piece) THEN Len(file) ELSE pos + Len(piece)
    IN  [k \in 1..len |->
            IF k > pos /\ k <= pos + Len(piece) THEN piece[k - pos]
            ELSE IF k <= Len(file) THEN file[k] ELSE 0]

\* What one write call of fsp.writeFile hands to the file: the whole Buffer, or
\* the next chunk of the Readable.
Piece(payload, pos) ==
    IF payload.form = "buffer" THEN SubSeq(payload.bytes, pos + 1, Len(payload.bytes))
    ELSE SubSeq(payload.bytes, pos + 1, pos + 1)

WriteInit ==
    /\ store = [source |-> EmptyStore("s3"), target |-> EmptyStore("s3")]
    /\ Idle
    /\ prev = NoCall
    /\ last = NoOp
    /\ \E k \in Kinds, p1 \in Payloads(1), p2 \in Payloads(2) :
          inFlight = [kind |-> k, file |-> <<>>,
                      w |-> <<[pc |-> "called", payload |-> p1, pos |-> 0],
                              [pc |-> "called", payload |-> p2, pos |-> 0]>>,
                      read |-> [done |-> FALSE, bytes |-> <<>>]]

\* LocalFolderStore.write: await fsp.mkdir(path.dirname(filePath), recursive)
LocalWriteMkdir(i) ==
    /\ inFlight.kind = "local"
    /\ inFlight.w[i].pc = "called"
    /\ inFlight' = [inFlight EXCEPT !.w[i].pc = "mkdir"]
    /\ UNCHANGED <<store, pc, runVars, result, raised, last>>

\* fsp.writeFile opens the file with flag "w": it is created or truncated, and
\* the handle's position is 0.
LocalWriteOpen(i) ==
    /\ inFlight.kind = "local"
    /\ inFlight.w[i].pc = "mkdir"
    /\ inFlight' = [inFlight EXCEPT !.w[i].pc = "open", !.file = <<>>]
    /\ UNCHANGED <<store, pc, runVars, result, raised, last>>

\* fsp.writeFile writes the next piece at the position of its own handle.
LocalWriteData(i) ==
    /\ inFlight.kind = "local"
    /\ inFlight.w[i].pc = "open"
    /\ inFlight.w[i].pos < Len(inFlight.w[i].payload.bytes)
    /\ LET piece == Piece(inFlight.w[i].payload, inFlight.w[i].pos)
       IN  inFlight' = [inFlight EXCEPT
                           !.file = Overwrite(@, inFlight.w[i].pos, piece),
                           !.w[i].pos = @ + Len(piece)]
    /\ UNCHANGED <<store, pc, runVars, result, raised, last>>

\* fsp.writeFile closes the handle and the promise of write resolves.
LocalWriteClose(i) ==
    /\ inFlight.kind = "local"
    /\ inFlight.w[i].pc = "open"
    /\ inFlight.w[i].pos = Len(inFlight.w[i].payload.bytes)
    /\ inFlight' = [inFlight EXCEPT !.w[i].pc = "done"]
    /\ UNCHANGED <<store, pc, runVars, result, raised, last>>

\* S3BucketStore.write: client.send(PutObjectCommand) is called.
S3WriteSend(i) ==
    /\ inFlight.kind = "s3"
    /\ inFlight.w[i].pc = "called"
    /\ inFlight' = [inFlight EXCEPT !.w[i].pc = "sent"]
    /\ UNCHANGED <<store, pc, runVars, result, raised, last>>

\* The service has received the body, puts the object under the key in one
\* step and answers 200: the promise of write resolves.
S3WriteStored(i) ==
    /\ inFlight.kind = "s3"
    /\ inFlight.w[i].pc = "sent"
    /\ inFlight' = [inFlight EXCEPT !.w[i].pc = "done",
                                    !.file = inFlight.w[i].payload.bytes]
    /\ UNCHANGED <<store, pc, runVars, result, raised, last>>

\* readBuffer(name) once both writes have completed.
ReadBufferAfterWrites ==
    /\ \A i \in Writers : inFlight.w[i].pc = "done"
    /\ ~inFlight.read.done
    /\ inFlight' = [inFlight EXCEPT !.read = [done |-> TRUE, bytes |-> inFlight.file]]
    /\ UNCHANGED <<store, pc, runVars, result, raised, last>>

WriteNext ==
    \/ \E i \in Writers : LocalWriteMkdir(i)
    \/ \E i \in Writers : LocalWriteOpen(i)
    \/ \E i \in Writers : LocalWriteData(i)
    \/ \E i \in Writers : LocalWriteClose(i)
    \/ \E i \in Writers : S3WriteSend(i)
    \/ \E i \in Writers : S3WriteStored(i)
    \/ ReadBufferAfterWrites

WriteSpec == WriteInit /\ [][WriteNext]_vars

----------------------------------------------------------------------------
\* Properties of StoreBackup (checked under Spec)

Requested(request, name) == \E s \in StoreIds : <<request, name, s>> \in issued

Untouched(name) ==
    /\ \A request \in {"readStream", "write", "delete"} : ~Requested(request, name)
    /\ store["target"].files[name] = store0["target"].files[name]

\* C1: a copyStore call whose target holds at least one entry never gets past
\* its emptiness check: it is at that check or has failed, it has issued no
\* request for any name, and target is what it was when the call started.
CopyStoreRefusesNonEmptyTarget ==
    (op = "copyStore" /\ StoredNames(store0["target"]) # {}) =>
        /\ pc \in {"cs_empty", "failed"}
        /\ issued = {}
        /\ store["target"] = store0["target"]

CopyStoreRefusedWitness ==
    /\ op = "copyStore"
    /\ StoredNames(store0["target"]) # {}
    /\ store0["target"].kind = "s3"
    /\ pc = "failed"
    /\ result = "Error"

DiffMakesNamesEqual ==
    (op = "copyStoreDiff" /\ pc = "done" /\ prefix = <<>>) =>
        /\ StoredNames(store["target"]) = StoredNames(store["source"])
        /\ \A n \in StoredNames(store0["source"]) \ StoredNames(store0["target"]) :
             store["target"].files[n] = store["source"].files[n]
        /\ \A n \in StoredNames(store0["target"]) \ StoredNames(store0["source"]) :
             store["target"].files[n] = Absent

\* C4 (as claimed): for a name that source and target both held when
\* copyStoreDiff was called, the call issues no write and no delete, and
\* target keeps the content it had for it.
DiffLeavesCommonNamesAlone ==
    op = "copyStoreDiff" =>
        \A n \in StoredNames(store0["source"]) \cap StoredNames(store0["target"]) :
            /\ ~Requested("write", n)
            /\ ~Requested("delete", n)
            /\ store["target"].files[n] = store0["target"].files[n]

\* C5 (as claimed): a copyStoreDiff that follows a successful copyStoreDiff
\* with the same prefix, nothing having changed in between, computes empty
\* added and removed lists and issues no write and no delete on target.
SecondDiffDoesNothing ==
    (op = "copyStoreDiff" /\ again) =>
        /\ fileNames = <<>>
        /\ removedFiles = <<>>
        /\ \A n \in Names : ~Requested("write", n) /\ ~Requested("delete", n)
        /\ store["target"] = store0["target"]

\* C10: when a readStream, write or delete of the running loop has failed, the
\* call has failed with that error; no request was issued for the names after
\* the failing one (nor, when a copy failed, for any name to delete), which are
\* as they were at the start; the names copied before it hold source's content
\* and the names deleted before it are gone.
FirstFailureAborts ==
    (raised # "none" /\ idx >= 1) =>
        /\ pc = "failed"
        /\ result = raised
        /\ IF \E n \in Names : Requested("delete", n)
           THEN /\ \A k \in 1..Len(fileNames) :
                     store["target"].files[fileNames[k]] = store["source"].files[fileNames[k]]
                /\ \A k \in 1..(idx - 1) : store["target"].files[removedFiles[k]] = Absent
                /\ \A k \in (idx + 1)..Len(removedFiles) : Untouched(removedFiles[k])
           ELSE /\ \A k \in 1..(idx - 1) :
                     /\ Requested("write", fileNames[k])
                     /\ store["target"].files[fileNames[k]] = store["source"].files[fileNames[k]]
                /\ \A k \in (idx + 1)..Len(fileNames) : Untouched(fileNames[k])
                /\ \A k \in 1..Len(removedFiles) : Untouched(removedFiles[k])

FirstFailureWitness ==
    /\ op = "copyStoreDiff"
    /\ pc = "failed"
    /\ raised # "none"
    /\ Len(fileNames) = 2
    /\ idx = 1
    /\ Len(removedFiles) = 1
    /\ Requested("write", fileNames[1])

\* C11: after a copyStore that failed with a name already copied, target is not
\* empty until a clear() of it succeeds. A copyStore that follows without such
\* a clear stays at its emptiness check or has failed, with no request for any
\* name and target as it was; its error is the precondition error unless the
\* emptiness request itself failed. It completes only after a successful clear.
SecondCopyStoreNeedsEmptyTarget ==
    /\ (pc = "idle" /\ prev.partial /\ ~prev.cleared) =>
            StoredNames(store["target"]) # {}
    /\ (op = "copyStore" /\ again /\ ~prev.cleared) =>
            /\ pc \in {"cs_empty", "failed"}
            /\ issued = {}
            /\ store["target"] = store0["target"]
            /\ pc = "failed" => result = (IF raised = "none" THEN "Error" ELSE raised)
    /\ (op = "copyStore" /\ again /\ pc = "done") => prev.cleared

SecondCopyStoreRefusedWitness ==
    /\ op = "copyStore"
    /\ again
    /\ ~prev.cleared
    /\ pc = "failed"
    /\ result = "Error"

\* C12 (as claimed): a copyStore whose target is an initialized, empty
\* LocalFolderStore passes its emptiness check: it fails only with the error of
\* a failed store request, and when it is done target holds source's content
\* under every name of source that starts with prefix.
CopyStoreIntoLocalFolder ==
    (op = "copyStore" /\ store0["target"] = EmptyStore("local")) =>
        /\ pc = "failed" => result \notin {"TypeError", "Error"}
        /\ pc = "done" =>
              \A n \in StoredNames(store0["source"]) :
                  StartsWith(n, prefix) =>
                      store["target"].files[n] = store0["source"].files[n]

\* C18: as long as a call is at its emptiness check or at one of its list
\* requests, and when it ended there, it has issued no request for any name and
\* target is as it was. Once a copyStore has issued a request, target was
\* found empty and fileNames is the list of source; once a copyStoreDiff has
\* issued one, targetFiles is the list of target, the added and the removed
\* names are computed from the two lists, and every write is for an added name
\* and every delete for a removed one.
NoRequestBeforeLists ==
    LET sourceNames == List(store0["source"], prefix, "none").ret
        targetNames == List(store0["target"], prefix, "none").ret
    IN  /\ (\/ pc \in {"cs_empty", "cs_list", "csd_tlist", "csd_slist"}
            \/ (pc \in {"done", "failed"} /\ idx = 0)) =>
               /\ issued = {}
               /\ store["target"] = store0["target"]
        /\ (op = "copyStore" /\ issued # {}) =>
               /\ StoredNames(store0["target"]) = {}
               /\ SeqToSet(fileNames) = sourceNames
               /\ \A i \in issued : i[1] # "delete" /\ i[2] \in SeqToSet(fileNames)
        /\ (op = "copyStoreDiff" /\ issued # {}) =>
               /\ SeqToSet(targetFiles) = targetNames
               /\ SeqToSet(fileNames) = sourceNames \ targetNames
               /\ SeqToSet(removedFiles) = targetNames \ sourceNames
               /\ \A i \in issued :
                     IF i[1] = "delete" THEN i[2] \in SeqToSet(removedFiles)
                     ELSE i[2] \in SeqToSet(fileNames)

NoRequestBeforeListsWitness ==
    /\ op = "copyStoreDiff"
    /\ \E n \in Names : Requested("write", n)
    /\ \E n \in Names : Requested("delete", n)
    /\ StoredNames(store0["target"]) # {}

\* C19: the names of fileNames are transferred one at a time, in the order of
\* the list: when the readStream of a name has been issued, the readStream and
\* the write of every name before it in the list have been issued and that
\* write has completed, target holding source's content under the name; a write
\* is issued only for a name whose readStream has been issued; and at most one
\* name has its readStream issued and its write not yet issued.
OneTransferAtATime ==
    /\ \A k \in 1..Len(fileNames) :
          /\ Requested("readStream", fileNames[k]) =>
                \A j \in 1..(k - 1) :
                    /\ Requested("readStream", fileNames[j])
                    /\ Requested("write", fileNames[j])
                    /\ store["target"].files[fileNames[j]] =
                           store["source"].files[fileNames[j]]
                    /\ store["target"].files[fileNames[j]] # Absent
          /\ Requested("write", fileNames[k]) => Requested("readStream", fileNames[k])
    /\ Cardinality({n \in Names : Requested("readStream", n) /\ ~Requested("write", n)}) <= 1
    /\ \A i \in issued : i[1] # "delete" => i[2] \in SeqToSet(fileNames)

OneTransferAtATimeWitness ==
    /\ Len(fileNames) = 3
    /\ Requested("readStream", fileNames[3])
    /\ ~Requested("write", fileNames[3])

\* C20 (as claimed): the error of a copyStore that failed on its emptiness
\* precondition is not an IOError, and no call that failed with the error of a
\* store operation failed with an error of the class of that precondition error.
PreconditionErrorIsDistinct ==
    /\ (op = "copyStore" /\ pc = "failed" /\ raised = "none") =>
           ErrorClass(result) # "IOError"
    /\ (pc = "failed" /\ raised # "none") =>
           ErrorClass(result) # ErrorClass("Error")

\* C22: when a copyStoreDiff has issued a delete, every added name has been
\* written and target holds source's content under it; and when it failed
\* before any delete, at a copy, every name target held at the start is still
\* in target.
DeletesFollowCopies ==
    op = "copyStoreDiff" =>
        /\ (\E n \in Names : Requested("delete", n)) =>
               \A k \in 1..Len(fileNames) :
                   /\ Requested("write", fileNames[k])
                   /\ store["target"].files[fileNames[k]] # Absent
                   /\ store["target"].files[fileNames[k]] =
                          store["source"].files[fileNames[k]]
        /\ (pc = "failed" /\ \A n \in Names : ~Requested("delete", n)) =>
               /\ StoredNames(store0["target"]) \subseteq StoredNames(store["target"])
               /\ \A k \in 1..Len(removedFiles) : Untouched(removedFiles[k])

DeletesFollowCopiesWitness ==
    /\ op = "copyStoreDiff"
    /\ Len(fileNames) >= 2
    /\ \E n \in Names : Requested("delete", n)

\* C23: whatever a copyStore or copyStoreDiff has done so far, and when it has
\* completed or failed, source is what it was when the call started, and every
\* request for a name that was made on source is a readStream.
SourceIsOnlyRead ==
    /\ store["source"] = store0["source"]
    /\ \A i \in issued : i[3] = "source" => i[1] = "readStream"
    /\ \A i \in issued : i[1] = "readStream" => i[3] = "source"

SourceIsOnlyReadWitness ==
    /\ op = "copyStoreDiff"
    /\ pc \in {"done", "failed"}
    /\ StoredNames(store["source"]) # {}
    /\ \E n \in Names : Requested("readStream", n)
    /\ \E n \in Names : Requested("delete", n)

\* C24: during and after a copyStoreDiff with a non-empty prefix, every name
\* that does not start with the prefix has in target what it had at the start
\* (its content, or no entry), and no readStream, write or delete has been
\* issued for it.
DiffStaysWithinPrefix ==
    (op = "copyStoreDiff" /\ prefix # <<>>) =>
        \A n \in Names : ~StartsWith(n, prefix) => Untouched(n)

DiffStaysWithinPrefixWitness ==
    /\ op = "copyStoreDiff"
    /\ prefix # <<>>
    /\ pc = "done"
    /\ \E n \in Names :
          /\ ~StartsWith(n, prefix)
          /\ store0["source"].files[n] # store0["target"].files[n]
    /\ \E n \in Names : Requested("write", n)
    /\ \E n \in Names : Requested("delete", n)

\* C25 (as claimed): at every point of a copyStoreDiff, the names target holds
\* are among those it held at the start and those of source that start with
\* the prefix, and every name that source and target both held at the start is
\* still in target; and a copyStoreDiff with the default prefix that has
\* completed, from whatever state an earlier run left, has made the names of
\* target those of source.
DiffKeepsTargetBetweenStartAndSource ==
    op = "copyStoreDiff" =>
        /\ StoredNames(store["target"]) \subseteq
               StoredNames(store0["target"]) \cup
               {n \in StoredNames(store0["source"]) : StartsWith(n, prefix)}
        /\ (StoredNames(store0["source"]) \cap StoredNames(store0["target"]))
               \subseteq StoredNames(store["target"])
        /\ (pc = "done" /\ prefix = <<>>) =>
               StoredNames(store["target"]) = StoredNames(store["source"])

----------------------------------------------------------------------------
\* Properties of the stores (checked under StoreSpec)

\* C6 (as claimed): has(name) on a bucket that does not hold name returns false.
S3HasFalseWhenAbsent ==
    (/\ last.op = "has"
     /\ store[last.on].kind = "s3"
     /\ last.name \notin StoredNames(store[last.on])) => last.ret = FALSE

\* C7 (as claimed): has(N) right after a successful write(N, _) returns true,
\* and right after a successful delete(N) returns false, on either backend.
HasFollowsWriteAndDelete ==
    (last.op = "has" /\ last.fault = "none") =>
        /\ last.after = "write" => last.ret = TRUE
        /\ last.after = "delete" => last.ret = FALSE

\* C8: readBuffer(N) right after a successful write(N, B), its own request
\* going through, succeeds and returns B, whatever N was bound to before.
ReadBufferReturnsWritten ==
    (last.op = "readBuffer" /\ last.after = "write" /\ last.fault = "none") =>
        /\ last.ok
        /\ last.ret = last.wrote

ReadBufferReplacedWitness ==
    /\ last.op = "readBuffer"
    /\ last.after = "write"
    /\ last.fault = "none"
    /\ store[last.on].kind = "local"
    /\ last.old \notin {Absent, last.wrote}
    /\ last.ret = last.wrote

\* C9 (as claimed): a successful list(P) returns exactly the stored names that
\* start with P, names with path separators included.
ListReturnsStoredNames ==
    (last.op = "list" /\ last.ok) =>
        last.ret = {n \in StoredNames(store[last.on]) : StartsWith(n, last.name)}

\* C13 (as claimed): a readBuffer or readStream of a name that is not stored
\* is rejected at the call, and the error it is rejected with is an IOError.
ReadOfAbsentNameIsIOError ==
    (last.op \in {"readBuffer", "readStream"} /\ last.name \notin last.before) =>
        /\ ~last.ok
        /\ last.err = "IOError"

\* C14 (as claimed): has(name) resolves when name is merely absent, and a has
\* whose request fails for another reason is rejected with an IOError instead
\* of resolving with a boolean.
HasThrowsOnlyOnFailure ==
    last.op = "has" =>
        /\ (last.fault = "none" /\ last.name \notin last.before) => last.ok
        /\ last.fault # "none" => (~last.ok /\ last.err = "IOError")

\* C15 (as claimed): an S3BucketStore.initialize whose probe failed and whose
\* create request was answered with "the bucket already exists" completes, and
\* an initialize fails only when the bucket could not be created, with an IOError.
InitializeToleratesExistingBucket ==
    (last.op = "initialize" /\ store[last.on].kind = "s3") =>
        /\ (last.ret /\ last.fault = "exists") => last.ok
        /\ ~last.ok => (last.fault \in {"reject", "status"} /\ last.err = "IOError")

\* C16: a delete of a name that is not stored is rejected by a LocalFolderStore
\* and, when its request goes through, resolves on an S3BucketStore; either way
\* the store holds the same names after the call as before it.
DeleteOfAbsentName ==
    (last.op = "delete" /\ last.name \notin last.before) =>
        /\ store[last.on].kind = "local" => ~last.ok
        /\ (store[last.on].kind = "s3" /\ last.fault = "none") => last.ok
        /\ StoredNames(store[last.on]) = last.before

DeleteOfAbsentNameWitness ==
    /\ last.op = "delete"
    /\ last.name \notin last.before
    /\ last.before # {}
    /\ store[last.on].kind = "s3"
    /\ last.ok

----------------------------------------------------------------------------
\* Properties of concurrent writes (checked under WriteSpec)

\* C21 (as claimed): a readBuffer made after two write calls for the same name
\* that ran at the same time have both completed returns the whole content of
\* one of the two calls.
LastWriterWins ==
    inFlight.read.done =>
        \E i \in Writers : inFlight.read.bytes = inFlight.w[i].payload.bytes

====
